---- MODULE Spec2Model ----
(***************************************************************************)
(* Model of the field extraction engine of src/fedex.py: the path          *)
(* extractor, the dimension-string parser, the named-field record builder, *)
(* the recursive key-name search and the recursive flattening formatter.   *)
(*                                                                         *)
(* Python values are tagged tuples, the tag first:                         *)
(*   <<"null">>            None / JSON null                                *)
(*   <<"bool", b>>         True / False                                    *)
(*   <<"int", n>>          an integer                                      *)
(*   <<"float", w, f>>     the float w.f (one fractional digit)            *)
(*   <<"str", s>>          a string, s a sequence of one-character strings *)
(*   <<"list", xs>>        a list                                          *)
(*   <<"map", kvs>>        a dict: a sequence of <<key, value>> pairs in   *)
(*                         insertion order, keys being character sequences *)
(* A call returns <<"ok", value>> or <<"raise", exception name>>.          *)
(***************************************************************************)
EXTENDS Integers, Sequences, FiniteSets, TLC

VARIABLES pc, fn, args, ret

\* the locals of the query button handler
VARIABLES tracking_ids, all_results, summary_rows

queryVars == <<tracking_ids, all_results, summary_rows>>

vars == <<pc, fn, args, ret, tracking_ids, all_results, summary_rows>>

\* the handler has not run
NoQuery == tracking_ids = <<>> /\ all_results = <<>> /\ summary_rows = <<>>

-----------------------------------------------------------------------------
(* Python values *)

None == <<"null">>
PyBool(b) == <<"bool", b>>
PyInt(n) == <<"int", n>>
PyFloat(w, f) == <<"float", w, f>>
PyStr(s) == <<"str", s>>
PyList(xs) == <<"list", xs>>
PyDict(kvs) == <<"map", kvs>>

EmptyStr == PyStr(<<>>)

IsDict(v) == v[1] = "map"
IsList(v) == v[1] = "list"
IsStr(v) == v[1] = "str"
IsNone(v) == v[1] = "null"

Ok(v) == <<"ok", v>>
Raise(e) == <<"raise", e>>
Raised(r) == r[1] = "raise"

\* key in d
HasKey(d, k) == \E i \in 1..Len(d[2]) : d[2][i][1] = k

\* d[key]
GetItem(d, k) == d[2][CHOOSE i \in 1..Len(d[2]) : d[2][i][1] = k][2]

\* bool(v)
Truthy(v) ==
    CASE v[1] = "null" -> FALSE
      [] v[1] = "bool" -> v[2]
      [] v[1] = "int" -> v[2] # 0
      [] v[1] = "float" -> v[2] # 0 \/ v[3] # 0
      [] OTHER -> Len(v[2]) > 0

-----------------------------------------------------------------------------
(* Python string operations, on sequences of characters *)

Lowers == <<"a","b","c","d","e","f","g","h","i","j","k","l","m",
            "n","o","p","q","r","s","t","u","v","w","x","y","z">>
Uppers == <<"A","B","C","D","E","F","G","H","I","J","K","L","M",
            "N","O","P","Q","R","S","T","U","V","W","X","Y","Z">>

UpperChar(c) ==
    IF \E i \in 1..26 : Lowers[i] = c
    THEN Uppers[CHOOSE i \in 1..26 : Lowers[i] = c] ELSE c
LowerChar(c) ==
    IF \E i \in 1..26 : Uppers[i] = c
    THEN Lowers[CHOOSE i \in 1..26 : Uppers[i] = c] ELSE c

\* s.upper(), s.lower()
Upper(s) == [i \in 1..Len(s) |-> UpperChar(s[i])]
Lower(s) == [i \in 1..Len(s) |-> LowerChar(s[i])]

\* s[a:b] with 0-based Python bounds 0 <= a, b <= len(s)
Slice(s, a, b) == IF b <= a THEN <<>> ELSE SubSeq(s, a + 1, b)

\* sub occurs in s at 0-based position p
OccursAt(s, sub, p) ==
    /\ p + Len(sub) <= Len(s)
    /\ \A j \in 1..Len(sub) : s[p + j] = sub[j]

\* sub in s
Contains(s, sub) == \E p \in 0..Len(s) : OccursAt(s, sub, p)

\* s.find(sub): the lowest position, -1 when there is none
Find(s, sub) ==
    IF Contains(s, sub)
    THEN CHOOSE p \in 0..Len(s) :
            /\ OccursAt(s, sub, p)
            /\ \A q \in 0..(p - 1) : ~OccursAt(s, sub, q)
    ELSE -1

\* s.split(sep), sep a single character
RECURSIVE Split(_, _)
Split(s, sep) ==
    LET p == Find(s, <<sep>>) IN
    IF p = -1 THEN <<s>>
    ELSE <<Slice(s, 0, p)>> \o Split(Slice(s, p + 1, Len(s)), sep)

IsSpace(c) == c \in {" ", "\t", "\n", "\r"}

\* s.strip()
RECURSIVE LStrip(_)
LStrip(s) == IF Len(s) > 0 /\ IsSpace(s[1]) THEN LStrip(Tail(s)) ELSE s
RECURSIVE RStrip(_)
RStrip(s) ==
    IF Len(s) > 0 /\ IsSpace(s[Len(s)]) THEN RStrip(SubSeq(s, 1, Len(s) - 1)) ELSE s
Strip(s) == RStrip(LStrip(s))

Digits == <<"0","1","2","3","4","5","6","7","8","9">>
IsDigit(c) == \E i \in 1..10 : Digits[i] = c
DigitVal(c) == (CHOOSE i \in 1..10 : Digits[i] = c) - 1

RECURSIVE NatToStr(_)
NatToStr(n) ==
    IF n < 10 THEN <<Digits[n + 1]>>
    ELSE NatToStr(n \div 10) \o <<Digits[(n % 10) + 1]>>

\* str(n) of an integer
IntToStr(n) == IF n < 0 THEN <<"-">> \o NatToStr(0 - n) ELSE NatToStr(n)

RECURSIVE DigitsVal(_, _)
DigitsVal(s, acc) ==
    IF Len(s) = 0 THEN acc ELSE DigitsVal(Tail(s), acc * 10 + DigitVal(s[1]))

\* int(s): surrounding blanks and one sign are accepted, then digits only;
\* anything else raises ValueError
ParseInt(s) ==
    LET t == Strip(s)
        signed == Len(t) > 0 /\ t[1] \in {"-", "+"}
        d == IF signed THEN Tail(t) ELSE t
    IN  IF Len(d) > 0 /\ \A i \in 1..Len(d) : IsDigit(d[i])
        THEN Ok(IF signed /\ t[1] = "-" THEN 0 - DigitsVal(d, 0) ELSE DigitsVal(d, 0))
        ELSE Raise("ValueError")

-----------------------------------------------------------------------------
(* extract_field_value *)

\* ExtractStep without the lower bound on the index: a negative index counts
\* from the end of the list, as current[index] does in Python
ExtractStepNoLowerBound(current, part) ==
    IF Contains(part, <<"[">>) /\ Contains(part, <<"]">>)
    THEN LET lb == Find(part, <<"[">>)
             rb == Find(part, <<"]">>)
             key == Slice(part, 0, lb)
             index == ParseInt(Slice(part, lb + 1, rb))
         IN  IF Raised(index) THEN index
             ELSE IF IsDict(current) /\ HasKey(current, key)
                  THEN LET sub == GetItem(current, key) IN
                       IF IsList(sub) /\ index[2] < Len(sub[2])
                                      /\ 0 - Len(sub[2]) <= index[2]
                       THEN <<"next", sub[2][IF index[2] < 0
                                             THEN Len(sub[2]) + index[2] + 1
                                             ELSE index[2] + 1]>>
                       ELSE <<"return", None>>
                  ELSE <<"return", None>>
    ELSE IF IsDict(current) /\ HasKey(current, part)
         THEN <<"next", GetItem(current, part)>>
         ELSE <<"return", None>>

\* one iteration of the loop over parts: the next current value, or the
\* early return None, or the exception the try block catches
ExtractStep(current, part) ==
    IF Contains(part, <<"[">>) /\ Contains(part, <<"]">>)
    THEN LET lb == Find(part, <<"[">>)
             rb == Find(part, <<"]">>)
             key == Slice(part, 0, lb)
             index == ParseInt(Slice(part, lb + 1, rb))
         IN  IF Raised(index) THEN index
             ELSE IF IsDict(current) /\ HasKey(current, key)
                  THEN LET sub == GetItem(current, key) IN
                       IF IsList(sub) /\ 0 <= index[2] /\ index[2] < Len(sub[2])
                       THEN <<"next", sub[2][index[2] + 1]>>
                       ELSE <<"return", None>>
                  ELSE <<"return", None>>
    ELSE IF IsDict(current) /\ HasKey(current, part)
         THEN <<"next", GetItem(current, part)>>
         ELSE <<"return", None>>

RECURSIVE ExtractLoop(_, _)
ExtractLoop(current, parts) ==
    IF Len(parts) = 0 THEN current
    ELSE LET r == ExtractStep(current, parts[1]) IN
         IF r[1] = "next" THEN ExtractLoop(r[2], Tail(parts))
         ELSE None

\* extract_field_value(data, field_path), field_path a string
extract_field_value(data, field_path) ==
    Ok(ExtractLoop(data, Split(field_path, ".")))

-----------------------------------------------------------------------------
(* parse_dimensions *)

MulSign == "×"
PdMarker == <<"p", "d", ":">>

\* the dict {'length': ..., 'width': ..., 'height': ...}
Dims(l, w, h) == [length |-> l, width |-> w, height |-> h]

DimsDefault == Dims(<<>>, <<>>, <<>>)

\* the assignments made from parts: three values from three parts or more,
\* two from exactly two, none otherwise
DimsFromParts(parts) ==
    IF Len(parts) >= 3
    THEN Dims(Strip(parts[1]), Strip(parts[2]), Strip(parts[3]))
    ELSE IF Len(parts) = 2
         THEN Dims(Strip(parts[1]), Strip(parts[2]), <<>>)
         ELSE DimsDefault

\* SplitDims trying the ASCII "x" before the multiplication sign
SplitDimsAsciiFirst(text) ==
    IF Contains(text, <<"x">>) THEN DimsFromParts(Split(text, "x"))
    ELSE IF Contains(text, <<MulSign>>) THEN DimsFromParts(Split(text, MulSign))
    ELSE IF Contains(text, <<"X">>) THEN DimsFromParts(Split(text, "X"))
    ELSE DimsDefault

\* the if / elif / elif / else chain choosing the separator, and the
\* assignments after it
SplitDims(text) ==
    IF Contains(text, <<MulSign>>) THEN DimsFromParts(Split(text, MulSign))
    ELSE IF Contains(text, <<"x">>) THEN DimsFromParts(Split(text, "x"))
    ELSE IF Contains(text, <<"X">>) THEN DimsFromParts(Split(text, "X"))
    ELSE DimsDefault

\* parse_dimensions(dims_v_str), dims_v_str any Python value
parse_dimensions(dims_v_str) ==
    IF ~Truthy(dims_v_str) \/ ~IsStr(dims_v_str) THEN Ok(DimsDefault)
    ELSE LET s == dims_v_str[2] IN
         IF Contains(Lower(s), PdMarker)
         THEN LET pd_index == Find(Lower(s), PdMarker) IN
              IF pd_index # -1
              THEN LET after_pd == Strip(Slice(s, pd_index + 3, Len(s))) IN
                   Ok(SplitDims(after_pd))
              ELSE Ok(DimsDefault)
         ELSE Ok(SplitDims(s))

-----------------------------------------------------------------------------
(* str() and repr() *)

RECURSIVE Repr(_)
RECURSIVE ReprItems(_)
RECURSIVE ReprPairs(_)

\* repr(xs[0]), ", ", repr(xs[1]), ...
ReprItems(xs) ==
    IF Len(xs) = 0 THEN <<>>
    ELSE IF Len(xs) = 1 THEN Repr(xs[1])
    ELSE Repr(xs[1]) \o <<",", " ">> \o ReprItems(Tail(xs))

\* 'key': repr(value), ...
ReprPairs(kvs) ==
    IF Len(kvs) = 0 THEN <<>>
    ELSE LET one == <<"'">> \o kvs[1][1] \o <<"'", ":", " ">> \o Repr(kvs[1][2]) IN
         IF Len(kvs) = 1 THEN one ELSE one \o <<",", " ">> \o ReprPairs(Tail(kvs))

\* repr(v); the strings of the model hold no quote and no backslash
Repr(v) ==
    CASE v[1] = "null" -> <<"N","o","n","e">>
      [] v[1] = "bool" -> IF v[2] THEN <<"T","r","u","e">> ELSE <<"F","a","l","s","e">>
      [] v[1] = "int" -> IntToStr(v[2])
      [] v[1] = "float" -> IntToStr(v[2]) \o <<".">> \o NatToStr(v[3])
      [] v[1] = "str" -> <<"'">> \o v[2] \o <<"'">>
      [] v[1] = "list" -> <<"[">> \o ReprItems(v[2]) \o <<"]">>
      [] OTHER -> <<"{">> \o ReprPairs(v[2]) \o <<"}">>

\* str(v), as a character sequence
Str(v) == IF IsStr(v) THEN v[2] ELSE Repr(v)

-----------------------------------------------------------------------------
(* extract_required_fields *)

K_trackingId == <<"t","r","a","c","k","i","n","g","I","d">>
K_tracking_id == <<"t","r","a","c","k","i","n","g","_","i","d">>
K_shipperNote == <<"s","h","i","p","p","e","r","N","o","t","e">>
K_shipper_note == <<"s","h","i","p","p","e","r","_","n","o","t","e">>
K_address == <<"a","d","d","r","e","s","s">>
K_customerName == <<"c","u","s","t","o","m","e","r","N","a","m","e">>
K_customer_name == <<"c","u","s","t","o","m","e","r","_","n","a","m","e">>
K_customerPhone == <<"c","u","s","t","o","m","e","r","P","h","o","n","e">>
K_customer_phone == <<"c","u","s","t","o","m","e","r","_","p","h","o","n","e">>
K_dimensions == <<"d","i","m","e","n","s","i","o","n","s">>
K_dims == <<"d","i","m","s">>
K_t == <<"t">>

P_dims0v == <<"d","i","m","e","n","s","i","o","n","s",".","d","i","m","s","[","0","]",".","v">>
P_dims1v == <<"d","i","m","e","n","s","i","o","n","s",".","d","i","m","s","[","1","]",".","v">>
P_dims3t == <<"d","i","m","e","n","s","i","o","n","s",".","d","i","m","s","[","3","]",".","t">>
P_dims3v == <<"d","i","m","e","n","s","i","o","n","s",".","d","i","m","s","[","3","]",".","v">>

\* d.get(key, default)
DictGet(d, key, default) == IF HasKey(d, key) THEN GetItem(d, key) ELSE default

\* GetWithAlias falling back to the alias only when the primary key is absent
GetWithAliasIfAbsent(result, primary, alias) ==
    IF HasKey(result, primary) THEN GetItem(result, primary)
    ELSE DictGet(result, alias, EmptyStr)

\* result.get(primary, '') or result.get(alias, '')
GetWithAlias(result, primary, alias) ==
    LET first == DictGet(result, primary, EmptyStr) IN
    IF Truthy(first) THEN first ELSE DictGet(result, alias, EmptyStr)

\* x if x is not None else default, x the value extract_field_value returns
ExtractedOr(result, field_path, default) ==
    LET x == extract_field_value(result, field_path)[2] IN
    IF x # None THEN x ELSE default

\* Field_WEIGHT converting the extracted value to its string form
Field_WEIGHT_AsString(result) ==
    LET x == extract_field_value(result, P_dims0v)[2] IN
    IF x # None THEN PyStr(Str(x)) ELSE EmptyStr

\* Field_dims3t defaulting to the empty string like the other fields
Field_dims3t_EmptyDefault(result) == ExtractedOr(result, P_dims3t, EmptyStr)

Field_WEIGHT(result) == ExtractedOr(result, P_dims0v, EmptyStr)
Field_VOLUME(result) == ExtractedOr(result, P_dims1v, EmptyStr)
Field_dims3t(result) == ExtractedOr(result, P_dims3t, PyStr(<<"N","O","N","E">>))
Field_dims3v(result) == ExtractedOr(result, P_dims3v, EmptyStr)
Field_dims0v(result) == ExtractedOr(result, P_dims0v, EmptyStr)
Field_dims1v(result) == ExtractedOr(result, P_dims1v, EmptyStr)

\* parsed_dims, when dims_v is truthy; the three empty strings otherwise
ParsedDims(result) ==
    LET dims_v == extract_field_value(result, P_dims3v)[2] IN
    IF Truthy(dims_v) THEN parse_dimensions(PyStr(Str(dims_v)))[2] ELSE DimsDefault

FieldNames ==
    {"trackingId", "WEIGHT", "VOLUME", "dimensions.dims[3].t", "dimensions.dims[3].v",
     "length", "width", "height", "dimensions.dims[0].v", "dimensions.dims[1].v",
     "shipperNote", "address", "customerName", "customerPhone"}

\* extract_required_fields(result): result.get raises AttributeError on a
\* value that is no dict
extract_required_fields(result) ==
    IF ~IsDict(result) THEN Raise("AttributeError")
    ELSE Ok([f \in FieldNames |->
        CASE f = "trackingId" -> GetWithAlias(result, K_trackingId, K_tracking_id)
          [] f = "WEIGHT" -> Field_WEIGHT(result)
          [] f = "VOLUME" -> Field_VOLUME(result)
          [] f = "dimensions.dims[3].t" -> Field_dims3t(result)
          [] f = "dimensions.dims[3].v" -> Field_dims3v(result)
          [] f = "length" -> PyStr(ParsedDims(result).length)
          [] f = "width" -> PyStr(ParsedDims(result).width)
          [] f = "height" -> PyStr(ParsedDims(result).height)
          [] f = "dimensions.dims[0].v" -> Field_dims0v(result)
          [] f = "dimensions.dims[1].v" -> Field_dims1v(result)
          [] f = "shipperNote" -> GetWithAlias(result, K_shipperNote, K_shipper_note)
          [] f = "address" -> DictGet(result, K_address, EmptyStr)
          [] f = "customerName" -> GetWithAlias(result, K_customerName, K_customer_name)
          [] OTHER -> GetWithAlias(result, K_customerPhone, K_customer_phone)])

-----------------------------------------------------------------------------
(* search_fields_recursive *)

\* type(v).__name__
TypeName(v) ==
    CASE v[1] = "null" -> "NoneType"
      [] v[1] = "map" -> "dict"
      [] OTHER -> v[1]

\* one row of the result
Match(path, name, value) ==
    [path |-> path, name |-> name, value |-> value, kind |-> TypeName(value)]

\* the loop over search_terms_upper: some term occurs in key_upper
KeyMatches(key, search_terms) ==
    \E t \in 1..Len(search_terms) : Contains(Upper(key), Upper(search_terms[t]))

\* f"{path}.{key}" if path else key
JoinPath(path, key) == IF Len(path) > 0 THEN path \o <<".">> \o key ELSE key

\* f"{path}[{idx}]"
IndexPath(path, idx) == path \o <<"[">> \o IntToStr(idx) \o <<"]">>

RECURSIVE search_fields_recursive(_, _, _)
RECURSIVE SearchItems(_, _, _)
RECURSIVE SearchElements(_, _, _, _)

\* the loop over data.items(), from the pair kvs[1] on
SearchItems(kvs, search_terms, path) ==
    IF Len(kvs) = 0 THEN <<>>
    ELSE LET key == kvs[1][1]
             value == kvs[1][2]
             current_path == JoinPath(path, key)
         IN  (IF KeyMatches(key, search_terms)
              THEN <<Match(current_path, key, value)>> ELSE <<>>)
             \o (IF IsDict(value) \/ IsList(value)
                 THEN search_fields_recursive(value, search_terms, current_path)
                 ELSE <<>>)
             \o SearchItems(Tail(kvs), search_terms, path)

\* the loop over enumerate(data), from the element xs[1] of index idx on
SearchElements(xs, idx, search_terms, path) ==
    IF Len(xs) = 0 THEN <<>>
    ELSE (IF IsDict(xs[1]) \/ IsList(xs[1])
          THEN search_fields_recursive(xs[1], search_terms, IndexPath(path, idx))
          ELSE <<>>)
         \o SearchElements(Tail(xs), idx + 1, search_terms, path)

\* search_fields_recursive(data, search_terms, path): the list of rows
search_fields_recursive(data, search_terms, path) ==
    IF IsDict(data) THEN SearchItems(data[2], search_terms, path)
    ELSE IF IsList(data) THEN SearchElements(data[2], 0, search_terms, path)
    ELSE <<>>

-----------------------------------------------------------------------------
(* format_fields_recursive *)

TruncLen == 200
DefaultMaxDepth == 10

\* the literal text around the element count in the header of a list; each
\* character outside Latin-1 is written as its code point
CountLabelOpen == <<"[", "U+6570", "U+7EC4", "U+FF0C", "U+5171", " ">>
CountLabelClose == <<" ", "U+9879", "]">>

\* Indent with one blank for a level
IndentOneBlank(depth) == [i \in 1..depth |-> " "]

\* "  " * depth
Indent(depth) == [i \in 1..(2 * depth) |-> " "]

\* display_value: str(value), cut to its first 200 characters and "..."
\* when it is longer
DisplayValue(value) ==
    LET display_value == Str(value) IN
    IF Len(display_value) > TruncLen
    THEN SubSeq(display_value, 1, TruncLen) \o <<".", ".", ".">>
    ELSE display_value

\* f"{prefix}.{key}" if prefix else key
FieldPath(prefix, key) == IF Len(prefix) > 0 THEN prefix \o <<".">> \o key ELSE key

\* DepthExceeded letting one more level through
DepthExceededLate(depth, max_depth) == depth > max_depth + 1

\* depth > max_depth
DepthExceeded(depth, max_depth) == depth > max_depth

\* One appended line. text is the string the function appends; the other
\* fields record where it comes from: the depth of the call that appended
\* it, the branch of that call, and the value text the line shows (empty
\* for a header).
Line(text, depth, branch, shown) ==
    [text |-> text, depth |-> depth, branch |-> branch, shown |-> shown]

RECURSIVE format_fields_recursive(_, _, _, _)
RECURSIVE FormatItems(_, _, _, _)
RECURSIVE FormatValueElements(_, _, _, _, _)
RECURSIVE FormatElements(_, _, _, _, _)

\* the loop over enumerate(value) of a list that is the value of a key
FormatValueElements(xs, idx, field_path, depth, max_depth) ==
    IF Len(xs) = 0 THEN <<>>
    ELSE LET item == xs[1]
             item_path == IndexPath(field_path, idx)
         IN  (IF IsDict(item) \/ IsList(item)
              THEN <<Line(Indent(depth) \o <<" ", " ", "[">> \o item_path \o <<"]", ":">>,
                          depth, "element_header", <<>>)>>
                   \o format_fields_recursive(item, item_path, depth + 2, max_depth)
              ELSE <<Line(Indent(depth) \o <<" ", " ">> \o item_path \o <<":", " ">>
                              \o Str(item),
                          depth, "element_scalar", Str(item))>>)
             \o FormatValueElements(Tail(xs), idx + 1, field_path, depth, max_depth)

\* the loop over data.items()
FormatItems(kvs, prefix, depth, max_depth) ==
    IF Len(kvs) = 0 THEN <<>>
    ELSE LET key == kvs[1][1]
             value == kvs[1][2]
             field_path == FieldPath(prefix, key)
             indent == Indent(depth)
         IN  (IF IsDict(value) /\ Truthy(value)
              THEN <<Line(indent \o field_path \o <<":">>, depth, "mapping_header", <<>>)>>
                   \o format_fields_recursive(value, field_path, depth + 1, max_depth)
              ELSE IF IsList(value) /\ Truthy(value)
              THEN <<Line(indent \o field_path
                              \o <<":", " ">> \o CountLabelOpen
                              \o IntToStr(Len(value[2])) \o CountLabelClose,
                          depth, "sequence_header", <<>>)>>
                   \o FormatValueElements(value[2], 0, field_path, depth, max_depth)
              ELSE IF value = None
              THEN <<Line(indent \o field_path \o <<":", " ", "n", "u", "l", "l">>,
                          depth, "null", <<"n", "u", "l", "l">>)>>
              ELSE <<Line(indent \o field_path \o <<":", " ">> \o DisplayValue(value),
                          depth, "scalar", DisplayValue(value))>>)
             \o FormatItems(Tail(kvs), prefix, depth, max_depth)

\* the loop over enumerate(data) of a list that is data itself
FormatElements(xs, idx, prefix, depth, max_depth) ==
    IF Len(xs) = 0 THEN <<>>
    ELSE LET item == xs[1]
             item_path == IndexPath(prefix, idx)
         IN  (IF IsDict(item) \/ IsList(item)
              THEN <<Line(Indent(depth) \o item_path \o <<":">>,
                          depth, "list_element_header", <<>>)>>
                   \o format_fields_recursive(item, item_path, depth + 1, max_depth)
              ELSE <<Line(Indent(depth) \o item_path \o <<":", " ">> \o Str(item),
                          depth, "list_element_scalar", Str(item))>>)
             \o FormatElements(Tail(xs), idx + 1, prefix, depth, max_depth)

\* format_fields_recursive(data, prefix, depth, max_depth): the lines
format_fields_recursive(data, prefix, depth, max_depth) ==
    IF DepthExceeded(depth, max_depth) THEN <<>>
    ELSE IF IsDict(data) THEN FormatItems(data[2], prefix, depth, max_depth)
    ELSE IF IsList(data) THEN FormatElements(data[2], 0, prefix, depth, max_depth)
    ELSE IF Len(prefix) > 0
         THEN <<Line(Indent(depth) \o prefix \o <<":", " ">> \o DisplayValue(data),
                     depth, "bare", DisplayValue(data))>>
         ELSE <<Line(Indent(depth) \o DisplayValue(data), depth, "bare",
                     DisplayValue(data))>>

-----------------------------------------------------------------------------
(* Inputs of the path extractor *)

MaxLen == 2

K_a == <<"a">>
K_v == <<"v">>

\* the element at 0-based position i of a generated list: its content tells
\* the position
Elem(kind, i) ==
    CASE kind = "int" -> PyInt(i)
      [] kind = "null" -> None
      [] kind = "list" -> PyList(<<PyInt(i)>>)
      [] OTHER -> PyDict(<< <<K_v, PyInt(i)>>,
                            <<K_a, PyList(<<PyInt(i + 10), PyInt(i + 20)>>)>> >>)

ListOf(kind, n) == PyList([i \in 1..n |-> Elem(kind, i - 1)])

ExtractLists == {ListOf(kind, n) : kind \in {"int", "null", "list", "rec"}, n \in 0..MaxLen}

ExtractInner ==
    ExtractLists \cup {PyInt(7), PyStr(<<"s">>), None}
        \cup {PyDict(<< <<K_v, x>> >>) : x \in ExtractLists \cup {PyInt(8)}}

ExtractData ==
    {PyDict(<<>>), PyInt(7), PyStr(<<"a">>), None, ListOf("rec", MaxLen)}
        \cup {PyDict(<< <<K_a, x>> >>) : x \in ExtractInner}
        \cup {PyDict(<< <<K_v, PyInt(9)>>, <<K_a, x>> >>) : x \in ExtractLists}

\* a path segment as written: <<key>> is the bare key, <<key, i>> is key[i]
Segments ==
    {<<k>> : k \in {K_a, K_v}} \cup {<<k, i>> : k \in {K_a, K_v}, i \in (0 - 1)..MaxLen}

SegmentLists == UNION {[1..n -> Segments] : n \in 1..3}

RenderSegment(seg) ==
    IF Len(seg) = 1 THEN seg[1] ELSE seg[1] \o <<"[">> \o IntToStr(seg[2]) \o <<"]">>

RECURSIVE RenderPath(_)
RenderPath(segs) ==
    IF Len(segs) = 1 THEN RenderSegment(segs[1])
    ELSE RenderSegment(segs[1]) \o <<".">> \o RenderPath(Tail(segs))

\* args of a call of extract_field_value: data, field_path and the segments
\* field_path was written from
ExtractCalls == {<<d, RenderPath(segs), segs>> : d \in ExtractData, segs \in SegmentLists}

InitExtract ==
    /\ pc = "ready"
    /\ fn = "extract_field_value"
    /\ args \in ExtractCalls
    /\ ret = None
    /\ NoQuery

CallExtractFieldValue ==
    /\ pc = "ready"
    /\ fn = "extract_field_value"
    /\ ret' = extract_field_value(args[1], args[2])
    /\ pc' = "done"
    /\ UNCHANGED <<fn, args>>
    /\ UNCHANGED queryVars

SpecExtract == InitExtract /\ [][CallExtractFieldValue]_vars

-----------------------------------------------------------------------------
(* C1 *)

\* the segment seg resolves in the value v
SegResolves(v, seg) ==
    /\ IsDict(v)
    /\ HasKey(v, seg[1])
    /\ Len(seg) = 2 =>
          /\ IsList(GetItem(v, seg[1]))
          /\ 0 <= seg[2]
          /\ seg[2] < Len(GetItem(v, seg[1])[2])

\* the value one segment further
SegValue(v, seg) ==
    IF Len(seg) = 1 THEN GetItem(v, seg[1]) ELSE GetItem(v, seg[1])[2][seg[2] + 1]

\* the value reached by following segs in order, None as soon as a segment
\* does not resolve
RECURSIVE Follow(_, _)
Follow(v, segs) ==
    IF Len(segs) = 0 THEN v
    ELSE IF SegResolves(v, segs[1]) THEN Follow(SegValue(v, segs[1]), Tail(segs))
    ELSE None

RECURSIVE AllResolve(_, _)
AllResolve(v, segs) ==
    \/ Len(segs) = 0
    \/ SegResolves(v, segs[1]) /\ AllResolve(SegValue(v, segs[1]), Tail(segs))

\* C1: extract_field_value(V, P) returns the value reached by following the
\* segments of P in order when every segment resolves, and None when a
\* segment has a missing key, a non-mapping current value, a non-sequence
\* under an indexed key or an out-of-range (also negative) index.
C1_ExtractFollowsPath ==
    (pc = "done" /\ fn = "extract_field_value") =>
        ret = Ok(Follow(args[1], args[3]))

\* a three-segment path with an index resolves to a value that is not None
C1_Witness ==
    /\ pc = "done" /\ fn = "extract_field_value"
    /\ Len(args[3]) = 3
    /\ \E i \in 1..3 : Len(args[3][i]) = 2
    /\ AllResolve(args[1], args[3])
    /\ ret # Ok(None)

-----------------------------------------------------------------------------
(* Inputs of the dimension-string parser *)

MaxBody == 5

BodyChars == {MulSign, "x", "X", " ", "1"}

Bodies == UNION {[1..n -> BodyChars] : n \in 0..MaxBody}

Prefixes ==
    { <<>>,
      PdMarker,
      <<"P", "D", ":">>,
      <<" ", "p", "D", ":", " ">>,
      <<"1", "x", "p", "d", ":">>,
      <<"p", "d", ":", "P", "d", ":">> }

Ex_pd3 == <<"p","d",":","4","3",".","7","4",MulSign,"2","8",".","0","3",MulSign,"5",".","5","1">>
Ex_pd2 == <<"p","d",":","1","0","x","2","0">>
Ex_nosep == <<"n","o","-","s","e","p","a","r","a","t","o","r","-","h","e","r","e">>

ParseInputs ==
    {PyStr(pre \o body) : pre \in Prefixes, body \in Bodies}
        \cup {PyStr(Ex_pd3), PyStr(Ex_pd2), PyStr(Ex_nosep), None,
              PyInt(0), PyInt(5), PyBool(TRUE), PyList(<<PyStr(Ex_pd2)>>)}

InitParse ==
    /\ pc = "ready"
    /\ fn = "parse_dimensions"
    /\ args \in {<<v>> : v \in ParseInputs}
    /\ ret = None
    /\ NoQuery

CallParseDimensions ==
    /\ pc = "ready"
    /\ fn = "parse_dimensions"
    /\ ret' = parse_dimensions(args[1])
    /\ pc' = "done"
    /\ UNCHANGED <<fn, args>>
    /\ UNCHANGED queryVars

SpecParse == InitParse /\ [][CallParseDimensions]_vars

-----------------------------------------------------------------------------
(* C7 *)

\* the marker "pd:" in any letter case stands at 0-based position p of s
MarkerAt(s, p) ==
    /\ p + 3 <= Len(s)
    /\ s[p + 1] \in {"p", "P"}
    /\ s[p + 2] \in {"d", "D"}
    /\ s[p + 3] = ":"

HasMarker(s) == \E p \in 0..Len(s) : MarkerAt(s, p)

FirstMarker(s) ==
    CHOOSE p \in 0..Len(s) : MarkerAt(s, p) /\ \A q \in 0..(p - 1) : ~MarkerAt(s, q)

\* s without its leading and trailing blanks
Trimmed(s) ==
    LET ink == {i \in 1..Len(s) : s[i] # " "} IN
    IF ink = {} THEN <<>>
    ELSE SubSeq(s, CHOOSE i \in ink : \A j \in ink : i <= j,
                   CHOOSE i \in ink : \A j \in ink : j <= i)

\* the text the separators are looked for in
RefText(s) ==
    IF HasMarker(s) THEN Trimmed(SubSeq(s, FirstMarker(s) + 4, Len(s))) ELSE s

\* the positions of the separator sep in t, and the k-th part of t between
\* them, counted from 1
SepPositions(t, sep) == {i \in 1..Len(t) : t[i] = sep}

RefPart(t, sep, k) ==
    LET pos == SepPositions(t, sep)
        before(i) == Cardinality({j \in pos : j < i})
        from == IF k = 1 THEN 1 ELSE (CHOOSE i \in pos : before(i) = k - 2) + 1
        to == IF k = Cardinality(pos) + 1 THEN Len(t)
              ELSE (CHOOSE i \in pos : before(i) = k - 1) - 1
    IN  Trimmed(SubSeq(t, from, to))

RefDims(s) ==
    LET t == RefText(s)
        seps == <<MulSign, "x", "X">>
        found == {i \in 1..3 : SepPositions(t, seps[i]) # {}}
    IN  IF found = {} THEN Dims(<<>>, <<>>, <<>>)
        ELSE LET sep == seps[CHOOSE i \in found : \A j \in found : i <= j]
                 n == Cardinality(SepPositions(t, sep)) + 1
             IN  Dims(RefPart(t, sep, 1), RefPart(t, sep, 2),
                      IF n >= 3 THEN RefPart(t, sep, 3) ELSE <<>>)

\* C7: for every string s, parse_dimensions(s) equals the reference (text
\* after the first case-insensitive "pd:", trimmed, else s; the first of
\* "×", "x", "X" that occurs is the only separator; parts 0/1/2 trimmed,
\* height empty with two parts, all empty without a separator), the empty
\* string and None give the all-empty record, and the examples of the
\* specification come out as stated.
C7_ParseMatchesReference ==
    (pc = "done" /\ fn = "parse_dimensions") =>
        /\ IsStr(args[1]) => ret = Ok(RefDims(args[1][2]))
        /\ args[1] \in {None, EmptyStr, PyStr(Ex_nosep)} => ret = Ok(Dims(<<>>, <<>>, <<>>))
        /\ args[1] = PyStr(Ex_pd3) =>
              ret = Ok(Dims(<<"4","3",".","7","4">>, <<"2","8",".","0","3">>,
                            <<"5",".","5","1">>))
        /\ args[1] = PyStr(Ex_pd2) => ret = Ok(Dims(<<"1","0">>, <<"2","0">>, <<>>))

\* a marked string holding two kinds of separator is split on the one of
\* higher priority into three parts or more
C7_Witness ==
    /\ pc = "done" /\ fn = "parse_dimensions"
    /\ IsStr(args[1])
    /\ HasMarker(args[1][2])
    /\ Contains(RefText(args[1][2]), <<"x">>)
    /\ Contains(RefText(args[1][2]), <<"X">>)
    /\ Cardinality(SepPositions(RefText(args[1][2]), "x")) >= 2
    /\ ret[2].length # <<>> /\ ret[2].width # <<>> /\ ret[2].height # <<>>

-----------------------------------------------------------------------------
(* Inputs of the record builder *)

MaxDims == 4

Dim_pd3 == PyStr(<<"p","d",":","1",MulSign,"2",MulSign,"3">>)
Dim_pd2 == PyStr(Ex_pd2)
Dim_X3 == PyStr(<<"4","X","5","X","6","X","7">>)
Dim_none == PyStr(<<"n","o","n","e">>)
Val_DIM == PyStr(<<"D","I","M">>)

\* the values offered at 0-based position i of the list dims
DimEntries(i) ==
    CASE i = 0 -> {PyDict(<< <<K_v, PyInt(5)>> >>), PyDict(<< <<K_v, None>> >>),
                   PyDict(<<>>), PyDict(<< <<K_v, PyStr(<<"1","2">>)>> >>), PyInt(1)}
      [] i = 1 -> {PyDict(<< <<K_v, PyFloat(2, 1)>> >>), PyDict(<< <<K_v, PyInt(0)>> >>),
                   PyDict(<<>>)}
      [] i = 3 -> {PyDict(<< <<K_t, Val_DIM>>, <<K_v, x>> >>) :
                        x \in {Dim_pd3, Dim_pd2, Dim_X3, Dim_none}}
                  \cup {PyDict(<< <<K_v, PyInt(0)>> >>),
                        PyDict(<< <<K_v, PyInt(120)>> >>),
                        PyDict(<< <<K_t, Val_DIM>> >>),
                        PyDict(<< <<K_t, None>>, <<K_v, EmptyStr>> >>),
                        PyDict(<< <<K_v, PyDict(<< <<<<"x","1">>, PyInt(2)>> >>)>> >>),
                        PyDict(<< <<K_v, PyList(<<Dim_pd2, PyBool(FALSE)>>)>> >>),
                        Dim_pd3}
      [] OTHER -> {PyDict(<<>>)}

RECURSIVE DimsLists(_)
DimsLists(n) ==
    IF n = 0 THEN {<<>>}
    ELSE {Append(l, e) : l \in DimsLists(n - 1), e \in DimEntries(n - 1)}

\* the values offered under the key dimensions
DimensionsValues ==
    {PyDict(<< <<K_dims, PyList(l)>> >>) : l \in UNION {DimsLists(n) : n \in 0..MaxDims}}
        \cup {PyDict(<< <<K_dims, PyInt(3)>> >>),
              PyDict(<< <<K_dims, PyDict(<< <<K_v, PyInt(1)>> >>)>> >>),
              PyDict(<<>>), PyStr(<<"x">>), PyList(<<>>), None}

\* the key / value pairs of one field: how the primary key and the alias
\* are filled ("absent", "text", "empty", "zero", "null"), tag telling the
\* fields apart
KeyPair(key, kind, text) ==
    CASE kind = "absent" -> <<>>
      [] kind = "text" -> << <<key, PyStr(text)>> >>
      [] kind = "empty" -> << <<key, EmptyStr>> >>
      [] kind = "zero" -> << <<key, PyInt(0)>> >>
      [] OTHER -> << <<key, None>> >>

PrimaryKinds == {"absent", "text", "empty", "zero", "null"}
AliasKinds == {"absent", "text", "empty"}

NamedPairs(pk, ak) ==
    KeyPair(K_tracking_id, ak, <<"T","2">>) \o KeyPair(K_trackingId, pk, <<"T","1">>)
        \o KeyPair(K_shipperNote, pk, <<"S","1">>) \o KeyPair(K_shipper_note, ak, <<"S","2">>)
        \o KeyPair(K_address, pk, <<"A","1">>)
        \o KeyPair(K_customerName, pk, <<"N","1">>) \o KeyPair(K_customer_name, ak, <<"N","2">>)
        \o KeyPair(K_customer_phone, ak, <<"P","2">>) \o KeyPair(K_customerPhone, pk, <<"P","1">>)

\* the example of the specification
ExampleResult ==
    PyDict(<< <<K_trackingId, PyStr(<<"T","1">>)>>,
              <<K_dimensions, PyDict(<< <<K_dims, PyList(<<
                    PyDict(<< <<K_v, PyInt(5)>> >>),
                    PyDict(<< <<K_v, PyFloat(2, 1)>> >>),
                    PyDict(<<>>),
                    PyDict(<< <<K_t, Val_DIM>>, <<K_v, Dim_pd3>> >>) >>)>> >>)>> >>)

RecordInputs ==
    {PyDict(NamedPairs(pk, ak)) : pk \in PrimaryKinds, ak \in AliasKinds}
        \cup {PyDict(NamedPairs(pk, ak) \o << <<K_dimensions, d>> >>) :
                 pk \in PrimaryKinds, ak \in AliasKinds, d \in DimensionsValues}
        \cup {ExampleResult, PyList(<<ExampleResult>>), PyStr(<<"T","1">>), PyInt(5),
              PyBool(TRUE), None}

InitRecord ==
    /\ pc = "ready"
    /\ fn = "extract_required_fields"
    /\ args \in {<<v>> : v \in RecordInputs}
    /\ ret = None
    /\ NoQuery

CallExtractRequiredFields ==
    /\ pc = "ready"
    /\ fn = "extract_required_fields"
    /\ ret' = extract_required_fields(args[1])
    /\ pc' = "done"
    /\ UNCHANGED <<fn, args>>
    /\ UNCHANGED queryVars

SpecRecord == InitRecord /\ [][CallExtractRequiredFields]_vars

\* a call of extract_required_fields on a dict has returned
RecordBuilt == pc = "done" /\ fn = "extract_required_fields" /\ IsDict(args[1])

Segs_dims0v == << <<K_dimensions>>, <<K_dims, 0>>, <<K_v>> >>
Segs_dims1v == << <<K_dimensions>>, <<K_dims, 1>>, <<K_v>> >>
Segs_dims3t == << <<K_dimensions>>, <<K_dims, 3>>, <<K_t>> >>
Segs_dims3v == << <<K_dimensions>>, <<K_dims, 3>>, <<K_v>> >>

\* x, or the empty string when x is None
OrEmpty(x) == IF x = None THEN EmptyStr ELSE x

-----------------------------------------------------------------------------
(* C4 *)

\* C4 as stated: WEIGHT and VOLUME are the string values of what the paths
\* dims[0].v and dims[1].v reach ("5" and "2.1" in the example), and
\* length / width / height are the outputs of the parser on the string form
\* of dims[3].v.
C4_WeightVolumeAreStrings ==
    RecordBuilt =>
        /\ Follow(args[1], Segs_dims0v) # None =>
              ret[2]["WEIGHT"] = PyStr(Str(Follow(args[1], Segs_dims0v)))
        /\ Follow(args[1], Segs_dims1v) # None =>
              ret[2]["VOLUME"] = PyStr(Str(Follow(args[1], Segs_dims1v)))
        /\ args[1] = ExampleResult =>
              /\ ret[2]["WEIGHT"] = PyStr(<<"5">>)
              /\ ret[2]["VOLUME"] = PyStr(<<"2", ".", "1">>)

\* C4, amended: WEIGHT and VOLUME are the values reached at dims[0].v and
\* dims[1].v themselves, unconverted (the numbers 5 and 2.1 in the example;
\* the empty string when nothing or null is reached), and length / width /
\* height are the three outputs of the parser on the string form of
\* dims[3].v; the example yields length "1", width "2", height "3" and
\* dimensions.dims[3].t "DIM".
C4_WeightVolumeAreRawValues ==
    RecordBuilt =>
        /\ ret[2]["WEIGHT"] = OrEmpty(Follow(args[1], Segs_dims0v))
        /\ ret[2]["VOLUME"] = OrEmpty(Follow(args[1], Segs_dims1v))
        /\ Follow(args[1], Segs_dims3v) # None =>
              LET d == RefDims(Str(Follow(args[1], Segs_dims3v))) IN
              /\ ret[2]["length"] = PyStr(d.length)
              /\ ret[2]["width"] = PyStr(d.width)
              /\ ret[2]["height"] = PyStr(d.height)
        /\ args[1] = ExampleResult =>
              /\ ret[2]["WEIGHT"] = PyInt(5)
              /\ ret[2]["VOLUME"] = PyFloat(2, 1)
              /\ ret[2]["length"] = PyStr(<<"1">>)
              /\ ret[2]["width"] = PyStr(<<"2">>)
              /\ ret[2]["height"] = PyStr(<<"3">>)
              /\ ret[2]["dimensions.dims[3].t"] = Val_DIM

\* the record of a result whose dims[0].v and dims[1].v are numbers and
\* whose dims[3].v is a marked dimension string with three parts
C4_Witness ==
    /\ RecordBuilt
    /\ Follow(args[1], Segs_dims0v) = PyInt(5)
    /\ Follow(args[1], Segs_dims1v) = PyFloat(2, 1)
    /\ Follow(args[1], Segs_dims3v) = Dim_pd3
    /\ Follow(args[1], Segs_dims3t) = Val_DIM
    /\ ret[2]["height"] = PyStr(<<"3">>)

-----------------------------------------------------------------------------
(* C5 *)

NoDimsPathResolves(v) ==
    /\ ~AllResolve(v, Segs_dims0v)
    /\ ~AllResolve(v, Segs_dims1v)
    /\ ~AllResolve(v, Segs_dims3t)
    /\ ~AllResolve(v, Segs_dims3v)

\* C5: a mapping without the key dimensions, and any mapping in which none
\* of the dims paths resolves, yields WEIGHT, VOLUME, length, width, height
\* and dimensions.dims[3].v empty and dimensions.dims[3].t "NONE"; the
\* passthrough fields dimensions.dims[0].v and dimensions.dims[1].v always
\* equal WEIGHT and VOLUME.
C5_DefaultsWithoutDimensions ==
    RecordBuilt =>
        /\ ret[2]["dimensions.dims[0].v"] = ret[2]["WEIGHT"]
        /\ ret[2]["dimensions.dims[1].v"] = ret[2]["VOLUME"]
        /\ (~HasKey(args[1], K_dimensions) \/ NoDimsPathResolves(args[1])) =>
              /\ \A f \in {"WEIGHT", "VOLUME", "length", "width", "height",
                           "dimensions.dims[3].v"} : ret[2][f] = EmptyStr
              /\ ret[2]["dimensions.dims[3].t"] = PyStr(<<"N","O","N","E">>)

\* the record of a mapping that has named fields and no key dimensions
C5_Witness ==
    /\ RecordBuilt
    /\ ~HasKey(args[1], K_dimensions)
    /\ HasKey(args[1], K_trackingId)
    /\ ret[2]["dimensions.dims[3].t"] = PyStr(<<"N","O","N","E">>)

-----------------------------------------------------------------------------
(* C6 *)

AliasedFields ==
    { <<"trackingId", K_trackingId, K_tracking_id>>,
      <<"shipperNote", K_shipperNote, K_shipper_note>>,
      <<"customerName", K_customerName, K_customer_name>>,
      <<"customerPhone", K_customerPhone, K_customer_phone>> }

AddressIsKeyOrEmpty ==
    ret[2]["address"] =
        IF HasKey(args[1], K_address) THEN GetItem(args[1], K_address) ELSE EmptyStr

\* C6 as stated: a present primary key decides the field whatever its value,
\* the alias is used only when the primary key is absent, and the field is
\* the empty string only when neither key is present or the chosen value is
\* the empty string.
C6_PrimaryWinsWhenPresent ==
    RecordBuilt =>
        /\ \A a \in AliasedFields :
              /\ HasKey(args[1], a[2]) => ret[2][a[1]] = GetItem(args[1], a[2])
              /\ (~HasKey(args[1], a[2]) /\ HasKey(args[1], a[3])) =>
                    ret[2][a[1]] = GetItem(args[1], a[3])
              /\ (~HasKey(args[1], a[2]) /\ ~HasKey(args[1], a[3])) =>
                    ret[2][a[1]] = EmptyStr
        /\ AddressIsKeyOrEmpty

\* C6, amended: the field is the primary key's value when that key is
\* present with a truthy value; when the primary key is absent or its value
\* is falsy (empty string, 0, null, false, empty container) the field is
\* the alias's value if the alias key is present, whatever that value, and
\* the empty string if it is not. address is the value of the key address,
\* the empty string when the key is absent.
C6_PrimaryWinsWhenTruthy ==
    RecordBuilt =>
        /\ \A a \in AliasedFields :
              LET usePrimary == HasKey(args[1], a[2]) /\ Truthy(GetItem(args[1], a[2])) IN
              /\ usePrimary => ret[2][a[1]] = GetItem(args[1], a[2])
              /\ (~usePrimary /\ HasKey(args[1], a[3])) =>
                    ret[2][a[1]] = GetItem(args[1], a[3])
              /\ (~usePrimary /\ ~HasKey(args[1], a[3])) => ret[2][a[1]] = EmptyStr
        /\ AddressIsKeyOrEmpty

\* the primary key is present with an empty value, the alias has a text,
\* and the field is the alias's text
C6_Witness ==
    /\ RecordBuilt
    /\ HasKey(args[1], K_trackingId) /\ GetItem(args[1], K_trackingId) = EmptyStr
    /\ HasKey(args[1], K_tracking_id) /\ Truthy(GetItem(args[1], K_tracking_id))
    /\ ret[2]["trackingId"] = GetItem(args[1], K_tracking_id)

-----------------------------------------------------------------------------
(* Inputs of the key-name search *)

MaxItems == 2

K_Weight_kg == <<"W","e","i","g","h","t","_","k","g">>
K_volumeCm3 == <<"v","o","l","u","m","e","C","m","3">>
K_nested == <<"n","e","s","t","e","d">>
K_netWeightVolume == <<"n","e","t","W","e","i","g","h","t","V","o","l","u","m","e">>
T_weight == <<"w","e","i","g","h","t">>
T_volume == <<"v","o","l","u","m","e">>
T_WEIGHT == <<"W","E","I","G","H","T">>
T_e == <<"e">>
K_empty == <<>>

SearchKeys == {K_Weight_kg, K_volumeCm3, K_nested, K_netWeightVolume, K_empty}

SearchFlat ==
    {PyDict(<< <<k, PyInt(3)>> >>) : k \in SearchKeys}
        \cup {PyDict(<< <<k1, PyInt(3)>>, <<k2, PyInt(4)>> >>) :
                 k1 \in {K_Weight_kg, K_nested}, k2 \in {K_volumeCm3, K_empty}}
        \cup {PyDict(<< <<K_volumeCm3, PyInt(4)>>, <<K_Weight_kg, PyInt(3)>> >>)}

SearchElems ==
    {PyDict(<< <<K_Weight_kg, PyInt(3)>> >>),
     PyDict(<< <<K_nested, PyInt(3)>>, <<K_volumeCm3, PyInt(4)>> >>),
     PyInt(5)}

SearchLists == {PyList(l) : l \in UNION {[1..n -> SearchElems] : n \in 0..MaxItems}}

SearchInner == SearchFlat \cup SearchLists \cup {PyInt(3), PyList(<<PyList(<<PyDict(<< <<K_Weight_kg, None>> >>)>>)>>)}

\* the example of the specification
SearchExample ==
    PyDict(<< <<K_Weight_kg, PyInt(3)>>,
              <<K_nested, PyDict(<< <<K_volumeCm3, PyInt(4)>> >>)>> >>)

SearchData ==
    SearchInner
        \cup {PyDict(<< <<k, b>> >>) : k \in SearchKeys, b \in SearchInner}
        \cup {PyDict(<< <<k, PyDict(<< <<K_nested, b>> >>)>>, <<K_volumeCm3, PyInt(4)>> >>) :
                 k \in {K_Weight_kg, K_empty}, b \in SearchInner}
        \cup {SearchExample, None, PyStr(T_weight)}

SearchTerms ==
    { <<T_weight, T_volume>>, <<T_volume, T_weight>>, <<T_WEIGHT, T_weight>>,
      <<T_e>>, <<K_empty>>, <<>> }

InitSearch ==
    /\ pc = "ready"
    /\ fn = "search_fields_recursive"
    /\ args \in {<<d, t>> : d \in SearchData, t \in SearchTerms}
    /\ ret = None
    /\ NoQuery

\* search_fields_recursive(data, search_terms), path left at its default ""
CallSearchFieldsRecursive ==
    /\ pc = "ready"
    /\ fn = "search_fields_recursive"
    /\ ret' = Ok(search_fields_recursive(args[1], args[2], <<>>))
    /\ pc' = "done"
    /\ UNCHANGED <<fn, args>>
    /\ UNCHANGED queryVars

SpecSearch == InitSearch /\ [][CallSearchFieldsRecursive]_vars

-----------------------------------------------------------------------------
(* C8 *)

\* the addresses of the nodes of v: the positions of the children taken
\* from the root, counted from 1 (a pair of a mapping, an element of a
\* sequence)
RECURSIVE Addresses(_)
Addresses(v) ==
    {<<>>} \cup
    (IF IsDict(v)
     THEN UNION {{<<i>> \o a : a \in Addresses(v[2][i][2])} : i \in 1..Len(v[2])}
     ELSE IF IsList(v)
          THEN UNION {{<<i>> \o a : a \in Addresses(v[2][i])} : i \in 1..Len(v[2])}
          ELSE {})

RECURSIVE NodeAt(_, _)
NodeAt(v, a) ==
    IF Len(a) = 0 THEN v
    ELSE NodeAt(IF IsDict(v) THEN v[2][a[1]][2] ELSE v[2][a[1]], Tail(a))

Parent(a) == SubSeq(a, 1, Len(a) - 1)

\* the address a is a key occurrence: its parent is a mapping
IsKeyOccurrence(v, a) == Len(a) > 0 /\ IsDict(NodeAt(v, Parent(a)))

KeyOf(v, a) == NodeAt(v, Parent(a))[2][a[Len(a)]][1]

\* the key chain down to a, joined: a dot before every key but the first
\* step, [index] for a position in a sequence
RECURSIVE ChainPath(_, _, _)
ChainPath(v, a, n) ==
    IF n = 0 THEN <<>>
    ELSE LET up == SubSeq(a, 1, n - 1)
             node == NodeAt(v, up)
         IN  IF IsDict(node)
             THEN ChainPath(v, a, n - 1) \o (IF n = 1 THEN <<>> ELSE <<".">>)
                      \o node[2][a[n]][1]
             ELSE ChainPath(v, a, n - 1) \o <<"[">> \o IntToStr(a[n] - 1) \o <<"]">>

\* depth-first order, parent before child, siblings in iteration order
RECURSIVE Before(_, _)
Before(a, b) ==
    \/ Len(a) = 0
    \/ /\ Len(b) > 0
       /\ \/ a[1] < b[1]
          \/ a[1] = b[1] /\ Before(Tail(a), Tail(b))

RECURSIVE InOrder(_)
InOrder(S) ==
    IF S = {} THEN <<>>
    ELSE LET first == CHOOSE a \in S : \A b \in S : Before(a, b) IN
         <<first>> \o InOrder(S \ {first})

\* the key occurrences whose upper-cased name contains an upper-cased term
MatchingOccurrences(v, terms) ==
    {a \in Addresses(v) :
        /\ IsKeyOccurrence(v, a)
        /\ \E t \in 1..Len(terms) : Contains(Upper(KeyOf(v, a)), Upper(terms[t]))}

ExpectedMatches(v, terms) ==
    LET occ == InOrder(MatchingOccurrences(v, terms)) IN
    [i \in 1..Len(occ) |->
        [path |-> ChainPath(v, occ[i], Len(occ[i])),
         name |-> KeyOf(v, occ[i]),
         value |-> NodeAt(v, occ[i]),
         kind |-> TypeName(NodeAt(v, occ[i]))]]

\* C8: search_fields_recursive returns one match per key occurrence, at any
\* depth, whose upper-cased name contains an upper-cased term, once even
\* when several terms match, and none for any other key; the matches come
\* depth-first, parent before child, siblings in iteration order; the path
\* of a match is the dot-joined key chain with positions written [index].
C8_SearchFindsEveryMatchingKey ==
    (pc = "done" /\ fn = "search_fields_recursive") =>
        ret = Ok(ExpectedMatches(args[1], args[2]))

\* some key of v, at any depth, is the empty string
HasEmptyKey(v) ==
    \E a \in Addresses(v) : IsKeyOccurrence(v, a) /\ KeyOf(v, a) = <<>>

\* the same statement for the values none of whose keys is the empty string
C8_SearchWithoutEmptyKeys ==
    (pc = "done" /\ fn = "search_fields_recursive" /\ ~HasEmptyKey(args[1])) =>
        ret = Ok(ExpectedMatches(args[1], args[2]))

-----------------------------------------------------------------------------
(* Inputs of the flattening formatter *)

MaxNest == 3
MaxGuard == 2

K_b == <<"b">>

\* a string of n characters
LongStr(n) == PyStr([i \in 1..n |-> "y"])

FormatLeaves == {PyInt(1), None, LongStr(TruncLen + 1), PyDict(<<>>)}

RECURSIVE Nested(_)
Nested(n) ==
    IF n = 0 THEN FormatLeaves
    ELSE FormatLeaves
            \cup {PyDict(<< <<K_b, x>> >>) : x \in Nested(n - 1)}
            \cup {PyDict(<< <<K_a, x>>, <<K_b, PyInt(1)>> >>) : x \in Nested(n - 1)}
            \cup {PyList(<<x>>) : x \in Nested(n - 1)}
            \cup {PyList(<<PyInt(1), x>>) : x \in Nested(n - 1)}

FormatData ==
    Nested(MaxNest)
        \cup {LongStr(TruncLen), LongStr(TruncLen + 3), LongStr(TruncLen + 4),
              PyStr(<<"s">>), PyBool(TRUE), PyFloat(2, 1), PyList(<<>>),
              PyDict(<< <<K_a, LongStr(TruncLen)>>, <<K_b, PyList(<<>>)>> >>),
              PyDict(<< <<K_a, PyList(<<LongStr(TruncLen)>>)>> >>)}

FormatGuards == (0..MaxGuard) \cup {DefaultMaxDepth}

InitFormat ==
    /\ pc = "ready"
    /\ fn = "format_fields_recursive"
    /\ args \in {<<d, p, m>> : d \in FormatData, p \in {<<>>, <<"p">>}, m \in FormatGuards}
    /\ ret = None
    /\ NoQuery

\* format_fields_recursive(data, prefix, 0, max_depth)
CallFormatFieldsRecursive ==
    /\ pc = "ready"
    /\ fn = "format_fields_recursive"
    /\ ret' = Ok(format_fields_recursive(args[1], args[2], 0, args[3]))
    /\ pc' = "done"
    /\ UNCHANGED <<fn, args>>
    /\ UNCHANGED queryVars

SpecFormat == InitFormat /\ [][CallFormatFieldsRecursive]_vars

Formatted == pc = "done" /\ fn = "format_fields_recursive"

\* the lines returned
Lines == {ret[2][i] : i \in 1..Len(ret[2])}

\* the number of blanks a text starts with
LeadingBlanks(text) ==
    IF \A i \in 1..Len(text) : text[i] = " " THEN Len(text)
    ELSE (CHOOSE i \in 1..Len(text) :
             text[i] # " " /\ \A j \in 1..(i - 1) : text[j] = " ") - 1

-----------------------------------------------------------------------------
(* C3 *)

\* the shown text has at most 200 characters, or is 200 characters and "..."
CutOrShort(shown) ==
    Len(shown) > TruncLen =>
        /\ Len(shown) = TruncLen + 3
        /\ SubSeq(shown, TruncLen + 1, TruncLen + 3) = <<".", ".", ".">>

\* C3: in the output of format_fields_recursive no scalar is shown longer
\* than its first 200 characters and the marker "...", wherever the scalar
\* stands: value of a key, element of a list under a key, element of a
\* top-level list, bare top-level scalar.
C3_LongValuesAreTruncated ==
    Formatted => \A l \in Lines : CutOrShort(l.shown)

\* the same for the two places that cut the value: the value of a key and
\* the bare top-level scalar
C3_KeyValuesAreTruncated ==
    Formatted =>
        \A l \in Lines : l.branch \in {"scalar", "bare"} => CutOrShort(l.shown)

-----------------------------------------------------------------------------
(* C9 *)

\* the two lines of flatten({"a": {"b": 1}})
FlattenExample == PyDict(<< <<K_a, PyDict(<< <<K_b, PyInt(1)>> >>)>> >>)

FlattenExampleIsTwoLines ==
    (args[1] = FlattenExample /\ args[2] = <<>> /\ args[3] = DefaultMaxDepth) =>
        [i \in 1..Len(ret[2]) |-> ret[2][i].text]
            = << <<"a", ":">>, <<" ", " ", "a", ".", "b", ":", " ", "1">> >>

\* the line after the header of a non-empty mapping comes from the call one
\* level deeper, unless the guard cuts it
HeaderThenDeeper ==
    \A i \in 1..Len(ret[2]) :
        (ret[2][i].branch = "mapping_header" /\ ret[2][i].depth < args[3]) =>
            /\ i < Len(ret[2])
            /\ ret[2][i + 1].depth = ret[2][i].depth + 1

-----------------------------------------------------------------------------
(* C10 *)

\* C10 as stated: with max_depth m no returned line is indented by more
\* than m levels of two blanks.
C10_IndentWithinMaxDepth ==
    Formatted => \A l \in Lines : LeadingBlanks(l.text) <= 2 * args[3]

\* C10, amended: with max_depth m no call deeper than m appends a line and
\* no returned line is indented by more than m + 1 levels of two blanks; the
\* lines indented by m + 1 levels are the element lines of a list that is
\* the value of a key in a mapping processed at depth m.
C10_IndentWithinMaxDepthPlusOne ==
    Formatted =>
        \A l \in Lines :
            /\ l.depth <= args[3]
            /\ LeadingBlanks(l.text) <= 2 * (args[3] + 1)
            /\ LeadingBlanks(l.text) > 2 * args[3] =>
                  /\ l.branch \in {"element_header", "element_scalar"}
                  /\ l.depth = args[3]

\* the guard has cut a value nested deeper than max_depth, and an element
\* line stands one level beyond max_depth
C10_Witness ==
    /\ Formatted
    /\ args[3] < DefaultMaxDepth
    /\ Len(ret[2]) < Len(format_fields_recursive(args[1], args[2], 0, DefaultMaxDepth))
    /\ \E l \in Lines : LeadingBlanks(l.text) = 2 * (args[3] + 1)

-----------------------------------------------------------------------------
(* Every operation of the engine, on every input above *)

Init == InitExtract \/ InitParse \/ InitRecord \/ InitSearch \/ InitFormat

Next ==
    \/ CallExtractFieldValue
    \/ CallParseDimensions
    \/ CallExtractRequiredFields
    \/ CallSearchFieldsRecursive
    \/ CallFormatFieldsRecursive

Spec == Init /\ [][Next]_vars

-----------------------------------------------------------------------------
(* C2 *)

\* C2: no operation of the engine raises; each returns a result, also
\* extract_required_fields on a value that is no mapping.
C2_NoOperationRaises == pc = "done" => ~Raised(ret)

-----------------------------------------------------------------------------
(* The query button handler *)

\* the two status texts, each character written as its code point
StatusSuccess == "U+6210 U+529F"
StatusFailure == "U+5931 U+8D25"

\* [x.strip() for x in parts if x.strip()]
RECURSIVE StripNonEmpty(_)
StripNonEmpty(parts) ==
    IF Len(parts) = 0 THEN <<>>
    ELSE (IF Len(Strip(parts[1])) > 0 THEN <<Strip(parts[1])>> ELSE <<>>)
         \o StripNonEmpty(Tail(parts))

\* the list tracking_ids made from the text area
ParseTrackingIds(tracking_ids_text) ==
    StripNonEmpty(Split(Strip(tracking_ids_text), "\n"))

\* the record appended to all_results
ResultRecord(tracking_id, result) ==
    [tracking_id |-> tracking_id,
     status |-> IF Truthy(result) THEN StatusSuccess ELSE StatusFailure,
     result |-> result]

\* the row appended to summary_rows: the typed id, and the other columns
\* from required_fields
SummaryRow(tracking_id, required_fields) ==
    [f \in FieldNames |->
        IF f = "trackingId" THEN PyStr(tracking_id) ELSE required_fields[f]]

\* what make_request can return: {} after a request error, else the decoded
\* JSON body, which is whatever the server sent
FetchResults ==
    {PyDict(<<>>),
     ExampleResult,
     PyDict(NamedPairs("text", "text")),
     PyList(<<ExampleResult>>),
     None}

MaxLines == 3

TextLines == {<<"T", "7">>, <<" ", "T", "8", " ">>, <<" ">>, <<>>}

RECURSIVE JoinLines(_)
JoinLines(lines) ==
    IF Len(lines) = 0 THEN <<>>
    ELSE IF Len(lines) = 1 THEN lines[1]
    ELSE lines[1] \o <<"\n">> \o JoinLines(Tail(lines))

QueryTexts == {JoinLines(l) : l \in UNION {[1..n -> TextLines] : n \in 0..MaxLines}}

InitQuery ==
    /\ pc = "ready"
    /\ fn = "query"
    /\ args \in {<<t>> : t \in QueryTexts}
    /\ ret = None
    /\ NoQuery

\* the button is pressed on an empty text: the error message, nothing else
ClickQueryEmpty ==
    /\ pc = "ready" /\ fn = "query"
    /\ Len(Strip(args[1])) = 0
    /\ pc' = "done"
    /\ UNCHANGED <<fn, args, ret, queryVars>>

\* the button is pressed on a text with ids: the lists are set up
ClickQuery ==
    /\ pc = "ready" /\ fn = "query"
    /\ Len(Strip(args[1])) > 0
    /\ tracking_ids' = ParseTrackingIds(args[1])
    /\ all_results' = <<>>
    /\ summary_rows' = <<>>
    /\ pc' = "loop"
    /\ UNCHANGED <<fn, args, ret>>

\* one iteration of the loop over tracking_ids; an exception of
\* extract_required_fields leaves the handler after the record was appended
QueryStep ==
    /\ pc = "loop" /\ fn = "query"
    /\ Len(all_results) < Len(tracking_ids)
    /\ \E result \in FetchResults :
          LET tracking_id == tracking_ids[Len(all_results) + 1]
              required_fields == extract_required_fields(result)
          IN  /\ all_results' = Append(all_results, ResultRecord(tracking_id, result))
              /\ IF ~Truthy(result)
                 THEN UNCHANGED <<summary_rows, pc, ret>>
                 ELSE IF Raised(required_fields)
                 THEN /\ ret' = required_fields
                      /\ pc' = "raised"
                      /\ UNCHANGED summary_rows
                 ELSE /\ summary_rows' =
                            Append(summary_rows, SummaryRow(tracking_id, required_fields[2]))
                      /\ UNCHANGED <<pc, ret>>
    /\ UNCHANGED <<fn, args, tracking_ids>>

\* the loop is over
QueryLoopEnd ==
    /\ pc = "loop" /\ fn = "query"
    /\ Len(all_results) = Len(tracking_ids)
    /\ pc' = "done"
    /\ UNCHANGED <<fn, args, ret, queryVars>>

NextQuery == ClickQueryEmpty \/ ClickQuery \/ QueryStep \/ QueryLoopEnd

SpecQuery == InitQuery /\ [][NextQuery]_vars

-----------------------------------------------------------------------------
(* C11 *)

\* the positions in all_results of the records with a non-empty result
Fetched == {i \in 1..Len(all_results) : Truthy(all_results[i].result)}

\* the position in all_results of the k-th record with a non-empty result
FetchedAt(k) ==
    CHOOSE i \in Fetched : Cardinality({j \in Fetched : j < i}) = k - 1

\* the row of the typed id and its own result
RowFor(tracking_id, result) ==
    [f \in FieldNames |->
        IF f = "trackingId" THEN PyStr(tracking_id)
        ELSE extract_required_fields(result)[2][f]]

ResultsFollowInput ==
    /\ Len(all_results) <= Len(tracking_ids)
    /\ \A i \in 1..Len(all_results) :
          /\ all_results[i].tracking_id = tracking_ids[i]
          /\ all_results[i].status = StatusSuccess <=> Truthy(all_results[i].result)

RowsFollowResults ==
    /\ Len(summary_rows) = Cardinality(Fetched)
    /\ \A k \in 1..Len(summary_rows) :
          /\ summary_rows[k]["trackingId"] = PyStr(tracking_ids[FetchedAt(k)])
          /\ summary_rows[k] =
                RowFor(tracking_ids[FetchedAt(k)], all_results[FetchedAt(k)].result)

\* C11: in the query loop, after any number of ids, all_results holds one
\* record per processed id in input order, with the success status exactly
\* for a non-empty result, and summary_rows holds one row per processed id
\* with a non-empty result, in input order, carrying the id as typed and
\* depending only on that id and its own result.
C11_RowsPerProcessedId ==
    fn = "query" => ResultsFollowInput /\ RowsFollowResults

\* the same while every non-empty result so far is a mapping
C11_RowsPerMappingResult ==
    (fn = "query" /\ \A i \in Fetched : IsDict(all_results[i].result)) =>
        ResultsFollowInput /\ RowsFollowResults

====
